---- MODULE Spec2Model ----
(***************************************************************************)
(* Model of barman's Google Cloud Storage interface                        *)
(* (barman/cloud_providers/google_cloud_storage.py, GoogleCloudInterface). *)
(*                                                                         *)
(* Python strings are sequences of one-character strings, so that          *)
(* startswith, replace, urlparse, strip and the iteration over a string    *)
(* are computed as Python computes them.                                   *)
(*                                                                         *)
(* Eight specifications share the variables:                               *)
(*   SpecLocator   __init__ on any URL (_parse_url, then the session)      *)
(*   SpecSession   _reinit_session, test_connectivity, _create_bucket      *)
(*   SpecTransfer  upload_fileobj and the multipart upload methods         *)
(*   SpecParts     the multipart upload methods alone                      *)
(*   SpecDelete    delete_objects on any list of paths and any bucket      *)
(*   SpecRead      list_bucket beside _reinit_session                      *)
(*   SpecOpen      remote_open on any bucket                               *)
(*   SpecAll       every operation, in runs of at most MaxOps caller steps *)
(* All but the first start from the state __init__ leaves.                 *)
(***************************************************************************)
EXTENDS Integers, Sequences, FiniteSets, TLC

VARIABLES
    url,               \* argument of __init__
    phase,             \* "new" before __init__, then "ready" or "failed"
    bucket_name,       \* self.bucket_name
    path,              \* self.path
    client,            \* self.client: 0 = none, n = the n-th storage.Client()
    container_client,  \* self.container_client: the client and the name it was derived from
    bucket_exists,     \* self.bucket_exists: "None", "True" or "False"
    gcs_bucket,        \* provider side: does the bucket exist
    gcs_objects,       \* provider side: object name -> content, for the objects that exist
    upload_state,      \* the multipart upload of the caller: "idle", "created", "completed", "aborted"
    upload_key,        \* key of that multipart upload
    inflight,          \* the _upload_part calls running: part number, and how the write ended
    parts_metadata,    \* part numbers whose _upload_part returned a part record
    reinit_pc,         \* position of a running _reinit_session: "idle" or "client_set"
    paths,             \* argument of delete_objects
    observed,          \* the client and the container handle list_bucket last read
    deleting,          \* the delete_objects that is running: its loop state
    listing,           \* the list_bucket that is running: its blob iterator
    calling,           \* the call of the caller whose provider request was answered and that has not returned
    opening,           \* the remote_open whose lookup was answered and that has not returned
    ops,               \* steps taken so far, counted where a specification bounds them
    ret                \* outcome of the last finished call

vars == <<url, phase, bucket_name, path, client, container_client, bucket_exists,
          gcs_bucket, gcs_objects, upload_state, upload_key, inflight,
          parts_metadata, reinit_pc, paths, observed, deleting, listing, calling,
          opening, ops, ret>>

locator == <<bucket_name, path>>
session == <<client, container_client, bucket_exists>>
provider == <<gcs_bucket, gcs_objects>>
multipart == <<upload_state, upload_key, inflight, parts_metadata>>

----------------------------------------------------------------------------
(* Bounds *)

\* longest text after the scheme of a URL given to __init__
MaxUrlLen == 4
\* how many sessions one adapter opens (the first by __init__)
MaxSessions == 3
\* parts of one multipart upload
NumParts == 2
\* longest list of paths given to delete_objects
MaxPaths == 3
\* most keys the provider puts in one page of a listing
MaxPageSize == 2
\* most steps of the caller and of the reader in a run of SpecAll, the bare
\* return of a call that issues one request not counted; the steps of the
\* workers are not counted either, the parts dispatched bound them
MaxOps == 3

----------------------------------------------------------------------------
(* Python str operations *)

BASE_URL == <<"h","t","t","p","s",":","/","/","c","o","n","s","o","l","e",".",
              "c","l","o","u","d",".","g","o","o","g","l","e",".","c","o","m",
              "/","s","t","o","r","a","g","e","/","b","r","o","w","s","e","r","/">>

GS_SCHEME == <<"g","s",":","/","/">>

\* s[i:] of Python, with i counted from 1
Drop(s, n) == SubSeq(s, n + 1, Len(s))

\* s.startswith(p)
StartsWith(s, p) == Len(s) >= Len(p) /\ SubSeq(s, 1, Len(p)) = p

\* s.replace(old, new): every non-overlapping occurrence, left to right
RECURSIVE Replace(_, _, _)
Replace(s, old, new) ==
    IF s = <<>> THEN <<>>
    ELSE IF StartsWith(s, old) THEN new \o Replace(Drop(s, Len(old)), old, new)
    ELSE <<Head(s)>> \o Replace(Tail(s), old, new)

\* s.strip("/")
RECURSIVE LStrip(_)
LStrip(s) == IF s # <<>> /\ Head(s) = "/" THEN LStrip(Tail(s)) ELSE s

RECURSIVE RStrip(_)
RStrip(s) ==
    IF s # <<>> /\ s[Len(s)] = "/" THEN RStrip(SubSeq(s, 1, Len(s) - 1)) ELSE s

\* a strip that forgets the trailing separators
StripLeftOnly(s) == LStrip(s)

Strip(s) == RStrip(LStrip(s))

\* the longest prefix of s holding none of the characters of stops
RECURSIVE TakeUntil(_, _)
TakeUntil(s, stops) ==
    IF s = <<>> \/ Head(s) \in stops THEN <<>>
    ELSE <<Head(s)>> \o TakeUntil(Tail(s), stops)

\* the characters urlsplit removes from a URL before it splits it
UNSAFE_URL_BYTES_TO_REMOVE == {"\t", "\r", "\n"}

\* s without the characters of chars
RECURSIVE RemoveAll(_, _)
RemoveAll(s, chars) ==
    IF s = <<>> THEN <<>>
    ELSE IF Head(s) \in chars THEN RemoveAll(Tail(s), chars)
    ELSE <<Head(s)>> \o RemoveAll(Tail(s), chars)

\* s has the character c
HasChar(s, c) == \E i \in 1..Len(s) : s[i] = c

\* netloc.partition("[")[2].partition("]")[0]
BracketedHost(net) ==
    TakeUntil(Drop(net, Len(TakeUntil(net, {"["})) + 1), {"]"})

\* s.split(c)
RECURSIVE Split(_, _)
Split(s, c) ==
    LET h == TakeUntil(s, {c})
    IN  IF Len(h) = Len(s) THEN <<s>>
        ELSE <<h>> \o Split(Drop(s, Len(h) + 1), c)

\* the ASCII decimal digits, the digit of value i at position i + 1
DecimalDigits == <<"0", "1", "2", "3", "4", "5", "6", "7", "8", "9">>

\* ipaddress._BaseV6._HEX_DIGITS
HEX_DIGITS ==
    {DecimalDigits[i] : i \in 1..10}
        \cup {"A", "B", "C", "D", "E", "F", "a", "b", "c", "d", "e", "f"}

\* int(octet_str, 10) of a text of decimal digits
RECURSIVE OctetInt(_)
OctetInt(octet_str) ==
    IF octet_str = <<>> THEN 0
    ELSE LET n == Len(octet_str)
         IN  OctetInt(SubSeq(octet_str, 1, n - 1)) * 10
                 + (CHOOSE i \in 0..9 : DecimalDigits[i + 1] = octet_str[n])

\* _parse_octet(octet_str) returns (raises no ValueError)
_parse_octet(octet_str) ==
    /\ octet_str # <<>>
    /\ \A i \in 1..Len(octet_str) : \E d \in 1..10 : DecimalDigits[d] = octet_str[i]
    /\ Len(octet_str) <= 3
    /\ octet_str = <<"0">> \/ Head(octet_str) # "0"
    /\ OctetInt(octet_str) <= 255

\* IPv4Address(address) is built (raises no AddressValueError)
IPv4Address(address) ==
    /\ ~HasChar(address, "/")
    /\ address # <<>>
    /\ LET octets == Split(address, ".")
       IN  /\ Len(octets) = 4
           /\ \A i \in 1..4 : _parse_octet(octets[i])

\* _parse_hextet(hextet_str) returns (raises no ValueError)
_parse_hextet(hextet_str) ==
    /\ \A i \in 1..Len(hextet_str) : hextet_str[i] \in HEX_DIGITS
    /\ Len(hextet_str) <= 4
    /\ hextet_str # <<>>

\* _split_scope_id(ip_str): the address before the first "%", and whether
\* the scope id after it is accepted
_split_scope_id(ip_str) ==
    LET addr == TakeUntil(ip_str, {"%"})
        scope_id == Drop(ip_str, Len(addr) + 1)
    IN  IF Len(addr) = Len(ip_str) THEN [raised |-> FALSE, addr |-> ip_str]
        ELSE [raised |-> scope_id = <<>> \/ HasChar(scope_id, "%"), addr |-> addr]

\* the parts of an address once its IPv4 suffix, if it has one, has become
\* two hextets
Hextets(split) ==
    IF HasChar(split[Len(split)], ".")
    THEN SubSeq(split, 1, Len(split) - 1) \o << <<"0">>, <<"0">> >>
    ELSE split

\* where "::" is: the empty parts that are not at an end
SkipIndexes(parts) == {i \in 2..(Len(parts) - 1) : parts[i] = <<>>}

\* the parts copied from before the "::" at skip_index (counted from 0)
PartsHi(parts, skip_index) ==
    IF parts[1] = <<>> THEN skip_index - 1 ELSE skip_index

\* the parts copied from after the "::"
PartsLo(parts, skip_index) ==
    IF parts[Len(parts)] = <<>> THEN Len(parts) - skip_index - 2
    ELSE Len(parts) - skip_index - 1

\* the checks of an address with a "::"
HextetsAroundSkip(parts, skip_index) ==
    /\ parts[1] = <<>> => PartsHi(parts, skip_index) = 0
    /\ parts[Len(parts)] = <<>> => PartsLo(parts, skip_index) = 0
    /\ 8 - (PartsHi(parts, skip_index) + PartsLo(parts, skip_index)) >= 1
    /\ \A i \in 1..PartsHi(parts, skip_index) : _parse_hextet(parts[i])
    /\ \A i \in (Len(parts) - PartsLo(parts, skip_index) + 1)..Len(parts) :
         _parse_hextet(parts[i])

\* the checks of an address without "::"
HextetsWithoutSkip(parts) ==
    /\ Len(parts) = 8
    /\ parts[1] # <<>>
    /\ parts[Len(parts)] # <<>>
    /\ \A i \in 1..Len(parts) : _parse_hextet(parts[i])

\* the checks of the parts of an address
HextetsAccepted(parts) ==
    /\ Len(parts) <= 9
    /\ Cardinality(SkipIndexes(parts)) <= 1
    /\ IF SkipIndexes(parts) # {}
       THEN HextetsAroundSkip(parts, (CHOOSE i \in SkipIndexes(parts) : TRUE) - 1)
       ELSE HextetsWithoutSkip(parts)

\* the checks of ip_str.split(":")
SplitAccepted(split) ==
    /\ Len(split) >= 3
    /\ HasChar(split[Len(split)], ".") => IPv4Address(split[Len(split)])
    /\ HextetsAccepted(Hextets(split))

\* _BaseV6._ip_int_from_string(ip_str) returns (raises no
\* AddressValueError); the value of the address is not kept
_ip_int_from_string(ip_str) ==
    /\ ip_str # <<>>
    /\ SplitAccepted(Split(ip_str, ":"))

\* IPv6Address(address) is built (raises no AddressValueError)
IPv6Address(address) ==
    /\ ~HasChar(address, "/")
    /\ ~_split_scope_id(address).raised
    /\ _ip_int_from_string(_split_scope_id(address).addr)

\* re.match(r"\Av[a-fA-F0-9]+\..+\Z", hostname)
IPvFuture(hostname) ==
    /\ hostname # <<>> /\ Head(hostname) = "v"
    /\ \E k \in 1..Len(hostname) :
         /\ Len(hostname) >= k + 3
         /\ \A i \in 2..(k + 1) : hostname[i] \in HEX_DIGITS
         /\ hostname[k + 2] = "."
         /\ \A i \in (k + 3)..Len(hostname) : hostname[i] # "\n"

\* _check_bracketed_host(hostname): the message of the ValueError it
\* raises, "" when it returns
_check_bracketed_host(hostname) ==
    IF hostname # <<>> /\ Head(hostname) = "v"
    THEN IF IPvFuture(hostname) THEN "" ELSE "IPvFuture address is invalid"
    ELSE IF IPv4Address(hostname) THEN "An IPv4 address cannot be in brackets"
    ELSE IF IPv6Address(hostname) THEN ""
    ELSE "does not appear to be an IPv4 or IPv6 address"

\* A character outside ASCII is written "U+" and its code point. These are
\* the characters whose NFKC form holds one of / ? # @ : (Unicode 14)
NFKC_UNSAFE ==
    {"U+2047", "U+2048", "U+2049", "U+2100", "U+2101", "U+2105", "U+2106", "U+2A74",
     "U+FE13", "U+FE16", "U+FE55", "U+FE56", "U+FE5F", "U+FE6B", "U+FF03", "U+FF0F",
     "U+FF1A", "U+FF1F", "U+FF20"}

\* _checknetloc(netloc) raises ValueError: the NFKC form of netloc holds one
\* of / ? # @ : that netloc itself does not
_checknetloc(netloc) == \E i \in 1..Len(netloc) : netloc[i] \in NFKC_UNSAFE

\* urlparse(u) for a u that starts with "gs://": TAB, CR and LF are removed,
\* the network location ends at the first of / ? # and must be free of
\* brackets unless they hold an IPv6 or IPvFuture literal
urlparse(u) ==
    LET clean == RemoveAll(u, UNSAFE_URL_BYTES_TO_REMOVE)
        rest == Drop(clean, Len(GS_SCHEME))
        net  == TakeUntil(rest, {"/", "?", "#"})
        tail == Drop(rest, Len(net))
    IN  IF HasChar(net, "[") # HasChar(net, "]")
        THEN [raised |-> "ValueError", message |-> "Invalid IPv6 URL",
              scheme |-> <<"g","s">>, netloc |-> <<>>, path |-> <<>>]
        ELSE IF HasChar(net, "[") /\ _check_bracketed_host(BracketedHost(net)) # ""
        THEN [raised |-> "ValueError",
              message |-> _check_bracketed_host(BracketedHost(net)),
              scheme |-> <<"g","s">>, netloc |-> <<>>, path |-> <<>>]
        ELSE IF _checknetloc(net)
        THEN [raised |-> "ValueError",
              message |-> "netloc contains invalid characters under NFKC normalization",
              scheme |-> <<"g","s">>, netloc |-> <<>>, path |-> <<>>]
        ELSE [raised |-> "none", message |-> "",
              scheme |-> <<"g","s">>, netloc |-> net,
              path |-> TakeUntil(tail, {"?", "#"})]

----------------------------------------------------------------------------
(* GoogleCloudInterface._parse_url *)

_parse_url(u) ==
    IF ~StartsWith(u, BASE_URL) /\ ~StartsWith(u, GS_SCHEME)
    THEN [raised |-> "ValueError", message |-> "malformed",
          bucket_name |-> <<>>, path |-> <<>>]
    ELSE LET gs_url == Replace(u, BASE_URL, GS_SCHEME)
             parsed_url == urlparse(gs_url)
         IN  IF parsed_url.raised # "none"
             THEN [raised |-> parsed_url.raised, message |-> parsed_url.message,
                   bucket_name |-> <<>>, path |-> <<>>]
             ELSE IF parsed_url.netloc = <<>>
             THEN [raised |-> "ValueError", message |-> "Bucket name not found",
                   bucket_name |-> <<>>, path |-> <<>>]
             ELSE [raised |-> "none", message |-> "", bucket_name |-> parsed_url.netloc,
                   path |-> Strip(parsed_url.path)]

----------------------------------------------------------------------------
(* Values shared by the operations *)

NoHandle == [client |-> 0, name |-> <<>>]

NoCalls == <<>>

\* one call to the provider: its name, the object it is about and how it
\* ended ("none": it returned, else the exception it raised)
Call(name, key, raised) == [call |-> name, key |-> key, raised |-> raised]

\* outcome of a finished call: its argument, the exception that left it
\* ("none": it returned), the returned value, the keys the exception's
\* payload names, the provider calls it issued and what it logged at error
\* level
Ret(op, arg, raised, value, payload, calls, log) ==
    [op |-> op, arg |-> arg, raised |-> raised, value |-> value,
     payload |-> payload, calls |-> calls, log |-> log]

NoRet == Ret("none", <<>>, "none", "None", {}, NoCalls, <<>>)

\* a call between the answer to its provider request and its return: the
\* request ended with raised, the call is to return value
Pending(op, arg, raised, value, calls) ==
    [op |-> op, arg |-> arg, raised |-> raised, value |-> value, calls |-> calls]

\* no such call
NoCall == Pending("none", <<>>, "none", "None", NoCalls)

----------------------------------------------------------------------------
(* The provider, as the calls of this file use it *)

\* google.api_core.exceptions.GoogleAPIError and its subclasses
GoogleAPIErrors == {"Forbidden", "NotFound", "Conflict"}

\* what a provider call can raise besides: google.auth's RefreshError, when
\* the credentials are refused before the API is reached
OtherErrors == {"RefreshError"}

IsGoogleAPIError(e) == e \in GoogleAPIErrors

\* how a provider call can go wrong whatever the bucket holds
Faults == {"Forbidden", "RefreshError"}

Outcomes == {"ok"} \cup Faults

EmptyBucket == [k \in {} |-> <<>>]

Put(objs, k, body) ==
    [x \in DOMAIN objs \cup {k} |-> IF x = k THEN body ELSE objs[x]]

Remove(objs, k) == [x \in DOMAIN objs \ {k} |-> objs[x]]

\* container_client.exists()
BucketExists(bucket, o) ==
    IF o # "ok" THEN [raised |-> o, value |-> "None"]
    ELSE [raised |-> "none", value |-> IF bucket THEN "True" ELSE "False"]

\* blob.upload_from_file(fileobj): the object is written whole or not at all
BlobUpload(bucket, objs, k, body, o) ==
    IF o # "ok" THEN [raised |-> o, objects |-> objs]
    ELSE IF ~bucket THEN [raised |-> "NotFound", objects |-> objs]
    ELSE [raised |-> "none", objects |-> Put(objs, k, body)]

\* blob.delete(): NotFound for an object that does not exist
BlobDelete(bucket, objs, k, o) ==
    IF o # "ok" THEN [raised |-> o, objects |-> objs]
    ELSE IF ~bucket \/ k \notin DOMAIN objs THEN [raised |-> "NotFound", objects |-> objs]
    ELSE [raised |-> "none", objects |-> Remove(objs, k)]

----------------------------------------------------------------------------
(* GoogleCloudInterface._reinit_session and __init__ *)

\* storage.Client(): a new client, which issues no request
NewClient(cl) == cl + 1

\* client.bucket(name): a handle bound to that client, which issues no request
BucketHandle(cl, name) == [client |-> cl, name |-> name]

_reinit_session(cl, name) ==
    LET c == NewClient(cl)
    IN  [client |-> c, container_client |-> BucketHandle(c, name)]

\* a constructor that opens the session before it parses the URL
InitSessionFirst(u) ==
    LET s == _reinit_session(0, <<>>)
        loc == _parse_url(u)
    IN  [raised |-> loc.raised, bucket_name |-> loc.bucket_name, path |-> loc.path,
         bucket_exists |-> "None", client |-> s.client,
         container_client |-> [client |-> s.client, name |-> loc.bucket_name]]

__init__(u) ==
    LET loc == _parse_url(u)
    IN  IF loc.raised # "none"
        THEN [raised |-> loc.raised, bucket_name |-> <<>>, path |-> <<>>,
              bucket_exists |-> "None", client |-> 0, container_client |-> NoHandle]
        ELSE LET s == _reinit_session(0, loc.bucket_name)
             IN  [raised |-> "none", bucket_name |-> loc.bucket_name, path |-> loc.path,
                  bucket_exists |-> "None", client |-> s.client,
                  container_client |-> s.container_client]

Construct ==
    /\ phase = "new"
    /\ LET r == __init__(url)
       IN  /\ phase' = IF r.raised = "none" THEN "ready" ELSE "failed"
           /\ bucket_name' = r.bucket_name
           /\ path' = r.path
           /\ bucket_exists' = r.bucket_exists
           /\ client' = r.client
           /\ container_client' = r.container_client
           /\ ret' = Ret("__init__", url, r.raised, "None", {}, NoCalls, <<>>)
    /\ UNCHANGED <<calling, opening, deleting, listing, observed, url, provider, multipart, reinit_pc, paths>>

----------------------------------------------------------------------------
(* Session: _reinit_session, test_connectivity, _create_bucket *)

\* the caller is between two calls
CallerIdle ==
    phase = "ready" /\ reinit_pc = "idle" /\ deleting.op = "none" /\ calling.op = "none"

\* a first assignment of _reinit_session that also clears the cached flag
ReinitClientForgets ==
    /\ CallerIdle
    /\ client < MaxSessions
    /\ client' = NewClient(client)
    /\ reinit_pc' = "client_set"
    /\ bucket_exists' = "None"
    /\ UNCHANGED <<calling, opening, deleting, listing, observed, url, phase, locator, container_client, provider, multipart,
                   paths, ret>>

\* a second assignment of _reinit_session that also creates the bucket
ReinitContainerCreatesBucket ==
    /\ reinit_pc = "client_set"
    /\ container_client' = BucketHandle(client, bucket_name)
    /\ reinit_pc' = "idle"
    /\ gcs_bucket' = TRUE
    /\ ret' = Ret("_reinit_session", <<>>, "none", "None", {}, NoCalls, <<>>)
    /\ UNCHANGED <<calling, opening, deleting, listing, observed, url, phase, locator, client, bucket_exists, gcs_objects,
                   multipart, paths>>

\* _reinit_session after construction, one assignment at a time: workers
\* that share the session run between the two
ReinitClient ==
    /\ CallerIdle
    /\ client < MaxSessions
    /\ client' = NewClient(client)
    /\ reinit_pc' = "client_set"
    /\ UNCHANGED <<calling, opening, deleting, listing, observed, url, phase, locator, container_client, bucket_exists, provider,
                   multipart, paths, ret>>

ReinitContainer ==
    /\ reinit_pc = "client_set"
    /\ container_client' = BucketHandle(client, bucket_name)
    /\ reinit_pc' = "idle"
    /\ ret' = Ret("_reinit_session", <<>>, "none", "None", {}, NoCalls, <<>>)
    /\ UNCHANGED <<calling, opening, deleting, listing, observed, url, phase, locator, client, bucket_exists, provider, multipart,
                   paths>>

_check_bucket_existence(bucket, o) == BucketExists(bucket, o)

\* the cached flag and the outcome of test_connectivity, given the flag
\* before the call and how the probe ended
test_connectivity(cached, probe) ==
    IF probe.raised = "none"
    THEN [raised |-> "none", value |-> "True", bucket_exists |-> probe.value, log |-> <<>>]
    ELSE IF IsGoogleAPIError(probe.raised)
    THEN [raised |-> "none", value |-> "False", bucket_exists |-> cached,
          log |-> <<probe.raised>>]
    ELSE [raised |-> probe.raised, value |-> "None", bucket_exists |-> cached, log |-> <<>>]

TestConnectivity ==
    /\ CallerIdle
    /\ \E o \in Outcomes :
         LET probe == _check_bucket_existence(gcs_bucket, o)
             r == test_connectivity(bucket_exists, probe)
         IN  /\ bucket_exists' = r.bucket_exists
             /\ ret' = Ret("test_connectivity", <<>>, r.raised, r.value, {},
                           <<Call("exists", <<>>, probe.raised)>>, r.log)
    /\ UNCHANGED <<calling, opening, deleting, listing, observed, url, phase, locator, client, container_client, provider, multipart,
                   reinit_pc, paths>>

\* client.create_bucket(container_client): Conflict for a bucket that exists
_create_bucket(bucket, o) ==
    IF o # "ok" THEN [raised |-> o, bucket |-> bucket]
    ELSE IF bucket THEN [raised |-> "Conflict", bucket |-> bucket]
    ELSE [raised |-> "none", bucket |-> TRUE]

\* _create_bucket sends client.create_bucket and waits: the provider has
\* applied the request, the call has not returned, the workers run on
CreateBucketRequest ==
    /\ CallerIdle
    /\ \E o \in Outcomes :
         LET r == _create_bucket(gcs_bucket, o)
         IN  /\ gcs_bucket' = r.bucket
             /\ calling' = Pending("_create_bucket", <<>>, r.raised, "None",
                                   <<Call("create_bucket", <<>>, r.raised)>>)
    /\ UNCHANGED <<opening, deleting, listing, observed, url, phase, locator, session, gcs_objects,
                   multipart, reinit_pc, paths, ret>>

\* _create_bucket returns, or raises what client.create_bucket raised
CreateBucketReturn ==
    /\ calling.op = "_create_bucket"
    /\ ret' = Ret("_create_bucket", calling.arg, calling.raised, calling.value, {},
                  calling.calls, <<>>)
    /\ calling' = NoCall
    /\ UNCHANGED <<opening, deleting, listing, observed, url, phase, locator, session, provider,
                   multipart, reinit_pc, paths>>

----------------------------------------------------------------------------
(* Inputs of the transfers *)

\* object names: "a", "b" and "ab"
Keys == {<<"a">>, <<"b">>, <<"a", "b">>}

\* the keys the caller uploads to
UploadKeys == Keys

\* content of the file of a single-shot upload
FileBody == <<0>>

\* content of part i
PartBody(i) == <<i, i>>

----------------------------------------------------------------------------
(* Single-shot transfer: upload_fileobj *)

\* the except clause of upload_fileobj: it logs the type and the __dict__ of
\* the error, then calls e.with_traceback() without its argument, which
\* raises TypeError before the third log line and before "raise e"
UploadErrorHandler(e) ==
    [raised |-> "TypeError", log |-> <<<<"type", e>>, <<"__dict__", e>>>>]

\* upload_fileobj after blob.upload_from_file(fileobj) ended with raised:
\* the return, or the except clause
upload_fileobj(key, raised) ==
    LET calls == <<Call("upload", key, raised)>>
    IN  IF raised = "none"
        THEN [raised |-> "none", calls |-> calls, log |-> <<>>]
        ELSE LET h == UploadErrorHandler(raised)
             IN  [raised |-> h.raised, calls |-> calls, log |-> h.log]

\* upload_fileobj sends blob.upload_from_file(fileobj) and waits: the
\* provider has applied the write, the call has not returned, the workers
\* run on. At most one writer per key: the caller uploads no file to the
\* key of a multipart upload it has in progress
UploadFileobjWrite ==
    /\ CallerIdle
    /\ \E key \in UploadKeys, o \in Outcomes :
         /\ ~(upload_state = "created" /\ key = upload_key)
         /\ LET w == BlobUpload(gcs_bucket, gcs_objects, key, FileBody, o)
            IN  /\ gcs_objects' = w.objects
                /\ calling' = Pending("upload_fileobj", key, w.raised, "None", NoCalls)
    /\ UNCHANGED <<opening, deleting, listing, observed, url, phase, locator, session, gcs_bucket,
                   multipart, reinit_pc, paths, ret>>

\* upload_fileobj returns, or leaves through its except clause
UploadFileobjReturn ==
    /\ calling.op = "upload_fileobj"
    /\ LET e == upload_fileobj(calling.arg, calling.raised)
       IN  ret' = Ret("upload_fileobj", calling.arg, e.raised, calling.value, {},
                      e.calls, e.log)
    /\ calling' = NoCall
    /\ UNCHANGED <<opening, deleting, listing, observed, url, phase, locator, session, provider,
                   multipart, reinit_pc, paths>>

----------------------------------------------------------------------------
(* Bulk delete: delete_objects *)

\* what "for path in paths" yields when paths is a str: its characters
StrItems(str) == [i \in 1..Len(str) |-> <<str[i]>>]

\* set(paths)
PySet(items) == {items[i] : i \in 1..Len(items)}

\* list(s) of a set s: its elements once each, in some order
Orders(S) ==
    {ord \in [1..Cardinality(S) -> S] : \A i, j \in 1..Cardinality(S) : i # j => ord[i] # ord[j]}

\* no delete_objects is running
NoDelete ==
    [op |-> "none", arg |-> <<>>, todo |-> <<>>, failures |-> {}, calls |-> NoCalls]

\* delete_objects(arg) has taken list(set(arg)) as order and enters its loop
EnterLoop(op, arg, order) ==
    [op |-> op, arg |-> arg, todo |-> order, failures |-> {}, calls |-> NoCalls]

\* one turn of the for loop of delete_objects, for the key k: a
\* GoogleAPIError is kept in failures, any other error leaves the loop
DeleteIteration(k, o, bucket, objs, failures, calls) ==
    LET d == BlobDelete(bucket, objs, k, o)
        c == Append(calls, Call("delete", k, d.raised))
    IN  IF d.raised = "none"
        THEN [raised |-> "none", objects |-> d.objects, failures |-> failures,
              calls |-> c]
        ELSE IF IsGoogleAPIError(d.raised)
        THEN [raised |-> "none", objects |-> objs,
              failures |-> failures \cup {<<k, d.raised>>}, calls |-> c]
        ELSE [raised |-> d.raised, objects |-> objs, failures |-> failures,
              calls |-> c]

\* an end of delete_objects that drops the failures it collected
ReturnWhateverFailed(failures) == [raised |-> "none", payload |-> {}]

\* the end of delete_objects: "if failures: raise RuntimeError("blabla")",
\* an error that names no key
RaiseIfFailures(failures) ==
    IF failures # {} THEN [raised |-> "RuntimeError", payload |-> {}]
    ELSE [raised |-> "none", payload |-> {}]

\* the multipart upload once the running delete_objects has ended: the call
\* of _abort_multipart_upload ends with it
UploadStateAfter(op, state) ==
    IF op = "_abort_multipart_upload" THEN "aborted" ELSE state

\* delete_objects(paths) is called. One call per behaviour: the call keeps
\* nothing between calls but the bucket, and the initial states hold every
\* bucket
DeleteObjects ==
    /\ CallerIdle
    /\ ret.op # "delete_objects"
    /\ \E order \in Orders(PySet(paths)) :
         deleting' = EnterLoop("delete_objects", paths, order)
    /\ UNCHANGED <<calling, opening, listing, observed, url, phase, locator, session, provider, multipart,
                   reinit_pc, paths, ret>>

\* the running delete_objects issues the blob.delete() of its next key;
\* workers run between two of these requests
DeleteNext ==
    /\ deleting.op # "none"
    /\ deleting.todo # <<>>
    /\ \E o \in Outcomes :
         LET r == DeleteIteration(Head(deleting.todo), o, gcs_bucket, gcs_objects,
                                  deleting.failures, deleting.calls)
         IN  /\ gcs_objects' = r.objects
             /\ IF r.raised = "none"
                THEN /\ deleting' = [deleting EXCEPT !.todo = Tail(@),
                                                    !.failures = r.failures,
                                                    !.calls = r.calls]
                     /\ UNCHANGED <<ret, upload_state>>
                ELSE /\ deleting' = NoDelete
                     /\ ret' = Ret(deleting.op, deleting.arg, r.raised, "None", {},
                                   r.calls, <<>>)
                     /\ upload_state' = UploadStateAfter(deleting.op, upload_state)
    /\ UNCHANGED <<calling, opening, listing, observed, url, phase, locator, session, gcs_bucket, upload_key,
                   inflight, parts_metadata, reinit_pc, paths>>

\* the loop of the running delete_objects is over
DeleteReturn ==
    /\ deleting.op # "none"
    /\ deleting.todo = <<>>
    /\ LET e == RaiseIfFailures(deleting.failures)
       IN  ret' = Ret(deleting.op, deleting.arg, e.raised, "None", e.payload,
                      deleting.calls, <<>>)
    /\ deleting' = NoDelete
    /\ upload_state' = UploadStateAfter(deleting.op, upload_state)
    /\ UNCHANGED <<calling, opening, listing, observed, url, phase, locator, session, provider, upload_key,
                   inflight, parts_metadata, reinit_pc, paths>>

----------------------------------------------------------------------------
(* Multipart upload *)

create_multipart_upload(key) == [raised |-> "none", value |-> <<>>, calls |-> NoCalls]

CreateMultipartUpload ==
    /\ CallerIdle
    /\ upload_state # "created"
    /\ inflight = {}
    /\ \E key \in UploadKeys :
         LET r == create_multipart_upload(key)
         IN  /\ upload_key' = key
             /\ ret' = Ret("create_multipart_upload", key, r.raised, r.value, {},
                           r.calls, <<>>)
    /\ upload_state' = "created"
    /\ parts_metadata' = {}
    /\ UNCHANGED <<calling, opening, deleting, listing, observed, url, phase, locator, session, provider, inflight, reinit_pc, paths>>

\* the part numbers of the _upload_part calls that are running
InFlight == {r.part : r \in inflight}

\* the caller hands part i to a worker, which enters _upload_part
DispatchPart ==
    /\ CallerIdle
    /\ upload_state = "created"
    /\ \E i \in 1..NumParts :
         /\ i \notin InFlight \cup parts_metadata
         /\ inflight' = inflight \cup {[part |-> i, write |-> "pending"]}
    /\ UNCHANGED <<calling, opening, deleting, listing, observed, url, phase, locator, session, provider, upload_state, upload_key,
                   parts_metadata, reinit_pc, paths, ret>>

\* GoogleCloudInterface.MAX_CHUNKS_PER_FILE
MAX_CHUNKS_PER_FILE == 1

\* a write that appends the body to what the object holds
PartWriteAppends(bucket, objs, key, body, o) ==
    BlobUpload(bucket, objs, key,
               (IF key \in DOMAIN objs THEN objs[key] ELSE <<>>) \o body, o)

\* the provider write of _upload_part: the blob.upload_from_file(body) of
\* upload_fileobj(body, key), which replaces the object
PartWrite(bucket, objs, key, body, o) == BlobUpload(bucket, objs, key, body, o)

\* an _upload_part that returns its part record whatever the write did
UploadPartAlwaysRecords(key, part_number, raised) ==
    LET u == upload_fileobj(key, raised)
    IN  [raised |-> "none", value |-> [PartNumber |-> part_number],
         calls |-> u.calls, log |-> u.log]

\* what _upload_part does once its write has ended with raised: the rest of
\* upload_fileobj, then the part record
_upload_part(key, part_number, raised) ==
    LET u == upload_fileobj(key, raised)
    IN  IF u.raised = "none"
        THEN [raised |-> "none", value |-> [PartNumber |-> part_number],
              calls |-> u.calls, log |-> u.log]
        ELSE [raised |-> u.raised, value |-> "None", calls |-> u.calls, log |-> u.log]

\* the provider write of a running _upload_part takes place; the call has
\* not returned yet, and other calls run before it does
WritePart ==
    /\ \E r \in inflight, o \in Outcomes :
         /\ r.write = "pending"
         /\ LET w == PartWrite(gcs_bucket, gcs_objects, upload_key, PartBody(r.part), o)
            IN  /\ gcs_objects' = w.objects
                /\ inflight' = (inflight \ {r}) \cup {[part |-> r.part, write |-> w.raised]}
    /\ UNCHANGED <<calling, opening, deleting, listing, observed, url, phase, locator, session, gcs_bucket, upload_state, upload_key,
                   parts_metadata, reinit_pc, paths, ret>>

\* a running _upload_part whose write has ended returns, or raises
ReturnPart ==
    /\ \E r \in inflight :
         /\ r.write # "pending"
         /\ LET e == _upload_part(upload_key, r.part, r.write)
            IN  /\ inflight' = inflight \ {r}
                /\ parts_metadata' =
                       IF e.raised = "none" THEN parts_metadata \cup {r.part}
                       ELSE parts_metadata
                /\ ret' = Ret("_upload_part", r.part, e.raised, e.value, {}, e.calls, e.log)
    /\ UNCHANGED <<calling, opening, deleting, listing, observed, url, phase, locator, session, provider, upload_state, upload_key,
                   reinit_pc, paths>>

_complete_multipart_upload(key, parts) == [raised |-> "none", calls |-> NoCalls]

\* the part records the caller holds, sorted by PartNumber
RECURSIVE SortedParts(_)
SortedParts(S) ==
    IF S = {} THEN <<>>
    ELSE LET m == CHOOSE x \in S : \A y \in S : x <= y
         IN  <<m>> \o SortedParts(S \ {m})

\* the parts argument of _complete_multipart_upload: any list of PartNumbers
PartLists == UNION {[1..n -> 1..NumParts] : n \in 1..NumParts}

CompleteMultipartUpload ==
    /\ CallerIdle
    /\ upload_state = "created"
    /\ inflight = {}
    /\ parts_metadata # {}
    /\ \E parts \in PartLists :
         LET r == _complete_multipart_upload(upload_key, parts)
         IN  ret' = Ret("_complete_multipart_upload", parts, r.raised, "None", {},
                        r.calls, <<>>)
    /\ upload_state' = "completed"
    /\ UNCHANGED <<calling, opening, deleting, listing, observed, url, phase, locator, session, provider, upload_key, inflight,
                   parts_metadata, reinit_pc, paths>>

\* _abort_multipart_upload(handle, key) calls delete_objects(key): key is a
\* str, so set(key) holds its characters
AbortMultipartUpload ==
    /\ CallerIdle
    /\ upload_state = "created"
    /\ \E order \in Orders(PySet(StrItems(upload_key))) :
         deleting' = EnterLoop("_abort_multipart_upload", upload_key, order)
    /\ UNCHANGED <<calling, opening, listing, observed, url, phase, locator, session, provider, multipart,
                   reinit_pc, paths, ret>>

----------------------------------------------------------------------------
(* Reading: list_bucket and remote_open *)

\* object names of the listings: "a", "d/a", "d/b", "d/e/a"
ListKeys == {<<"a">>, <<"d", "/", "a">>, <<"d", "/", "b">>, <<"d", "/", "e", "/", "a">>}

ListPrefixes == {<<>>, <<"d">>, <<"d", "/">>, <<"d", "/", "e">>}

\* the keys remote_open is called with
ReadKeys == ListKeys \cup Keys

DEFAULT_DELIMITER == <<"/">>

\* the delimiter argument of list_bucket
Delimiters == {DEFAULT_DELIMITER, <<"b">>}

\* the characters of object names, by increasing code point
CodePointOrder == <<"/", "a", "b", "c", "d", "e", "f", "g", "h", "i", "j", "k", "l", "m",
                    "n", "o", "p", "q", "r", "s", "t", "u", "v", "w", "x", "y", "z">>

\* the rank of a character in that order
Ord(c) == CHOOSE i \in 1..Len(CodePointOrder) : CodePointOrder[i] = c

\* s < t of two object names: the order the provider enumerates names in
RECURSIVE Less(_, _)
Less(s, t) ==
    IF t = <<>> THEN FALSE
    ELSE IF s = <<>> THEN TRUE
    ELSE IF Head(s) = Head(t) THEN Less(Tail(s), Tail(t))
    ELSE Ord(Head(s)) < Ord(Head(t))

\* the names of S in that order
RECURSIVE SortKeys(_)
SortKeys(S) ==
    IF S = {} THEN <<>>
    ELSE LET m == CHOOSE x \in S : \A y \in S \ {x} : Less(x, y)
         IN  <<m>> \o SortKeys(S \ {m})

\* where d first ends in r, 0 when r does not hold d
FirstEnd(r, d) ==
    LET hits == {i \in 1..(Len(r) - Len(d) + 1) : SubSeq(r, i, i + Len(d) - 1) = d}
    IN  IF hits = {} THEN 0
        ELSE (CHOOSE i \in hits : \A j \in hits : i <= j) + Len(d) - 1

\* the names the provider has yet to enumerate: the stored names that start
\* with prefix and come after the last name of the page before
Remaining(objs, prefix, after) ==
    SortKeys({k \in DOMAIN objs : StartsWith(k, prefix) /\ Less(after, k)})

\* one page of the provider's answer over the names ks: the blobs whose name
\* holds no delimiter after the prefix, and the prefixes of the others
RECURSIVE Page(_, _, _)
Page(ks, prefix, delimiter) ==
    IF ks = <<>> THEN [items |-> <<>>, prefixes |-> {}]
    ELSE LET k == Head(ks)
             e == FirstEnd(Drop(k, Len(prefix)), delimiter)
             rest == Page(Tail(ks), prefix, delimiter)
         IN  IF e = 0
             THEN [items |-> <<k>> \o rest.items, prefixes |-> rest.prefixes]
             ELSE [items |-> rest.items,
                   prefixes |-> {SubSeq(k, 1, Len(prefix) + e)} \cup rest.prefixes]

\* no list_bucket is running
NoListing ==
    [active |-> FALSE, prefix |-> <<>>, delimiter |-> <<>>, size |-> 0, after |-> <<>>,
     done |-> FALSE, objects |-> <<>>, prefixes |-> {}, calls |-> NoCalls]

\* blobs = client.list_blobs(container_client, prefix, delimiter): an
\* iterator, which has issued no request yet
list_blobs(prefix, delimiter, size) ==
    [active |-> TRUE, prefix |-> prefix, delimiter |-> delimiter, size |-> size,
     after |-> <<>>, done |-> FALSE, objects |-> <<>>, prefixes |-> {},
     calls |-> NoCalls]

\* the iteration over blobs fetches its next page: the names of the page are
\* appended to objects, its prefixes are added to blobs.prefixes
NextPage(bucket, objs, blobs, o) ==
    LET fault == IF o # "ok" THEN o ELSE IF ~bucket THEN "NotFound" ELSE "none"
        ks == Remaining(objs, blobs.prefix, blobs.after)
        n  == IF Len(ks) < blobs.size THEN Len(ks) ELSE blobs.size
        pg == Page(SubSeq(ks, 1, n), blobs.prefix, blobs.delimiter)
        c  == Append(blobs.calls, Call("list_blobs", blobs.prefix, fault))
    IN  IF fault # "none"
        THEN [raised |-> fault, blobs |-> [blobs EXCEPT !.calls = c]]
        ELSE [raised |-> "none",
              blobs |-> [blobs EXCEPT !.after = IF n = 0 THEN @ ELSE ks[n],
                                      !.done = (Len(ks) <= blobs.size),
                                      !.objects = @ \o pg.items,
                                      !.prefixes = @ \cup pg.prefixes,
                                      !.calls = c]]

\* a list_bucket that reads blobs.prefixes before it iterates blobs
ListBucketDirsFirst(objects, dirs) == objects

\* what list_bucket returns once blobs is consumed: objects + dirs, dirs
\* being list(blobs.prefixes)
list_bucket(objects, dirs) == objects \o dirs

\* a reader calls list_bucket(prefix, delimiter): it reads self.client and
\* self.container_client; the provider will page by size
ListBucket ==
    /\ phase = "ready"
    /\ ~listing.active
    /\ \E prefix \in ListPrefixes, delimiter \in Delimiters, size \in 1..MaxPageSize :
         listing' = list_blobs(prefix, delimiter, size)
    /\ observed' = <<client, container_client>>
    /\ UNCHANGED <<calling, opening, deleting, url, phase, locator, session, provider, multipart, reinit_pc,
                   paths, ret>>

\* the running list_bucket fetches a page; writers run between two pages
ListBucketPage ==
    /\ listing.active
    /\ ~listing.done
    /\ \E o \in Outcomes :
         LET r == NextPage(gcs_bucket, gcs_objects, listing, o)
         IN  IF r.raised = "none"
             THEN listing' = r.blobs /\ UNCHANGED ret
             ELSE /\ listing' = NoListing
                  /\ ret' = Ret("list_bucket",
                                [prefix |-> listing.prefix, delimiter |-> listing.delimiter],
                                r.raised, <<>>, {}, r.blobs.calls, <<>>)
    /\ UNCHANGED <<calling, opening, deleting, observed, url, phase, locator, session, provider, multipart,
                   reinit_pc, paths>>

\* blobs is consumed: the running list_bucket reads blobs.prefixes and returns
ListBucketReturn ==
    /\ listing.active
    /\ listing.done
    /\ \E dirs \in Orders(listing.prefixes) :
         ret' = Ret("list_bucket",
                    [prefix |-> listing.prefix, delimiter |-> listing.delimiter],
                    "none", list_bucket(listing.objects, dirs), {}, listing.calls, <<>>)
    /\ listing' = NoListing
    /\ UNCHANGED <<calling, opening, deleting, observed, url, phase, locator, session, provider, multipart,
                   reinit_pc, paths>>

\* a remote_open that probes the key before it fetches it
RemoteOpenProbesFirst(bucket, objs, key, o) ==
    IF o # "ok"
    THEN [raised |-> o, value |-> "None", calls |-> <<Call("exists", key, o)>>]
    ELSE IF ~bucket \/ key \notin DOMAIN objs
    THEN [raised |-> "none", value |-> "None", calls |-> <<Call("exists", key, "none")>>]
    ELSE [raised |-> "none", value |-> <<"stream", key>>,
          calls |-> <<Call("exists", key, "none"), Call("get_blob", key, "none")>>]

\* remote_open(key): get_blob answers None for a key (or a bucket) that does
\* not exist; blob.open("r") issues no request before the stream is read
remote_open(bucket, objs, key, o) ==
    IF o # "ok"
    THEN [raised |-> o, value |-> "None", calls |-> <<Call("get_blob", key, o)>>]
    ELSE IF ~bucket \/ key \notin DOMAIN objs
    THEN [raised |-> "none", value |-> "None", calls |-> <<Call("get_blob", key, "none")>>]
    ELSE [raised |-> "none", value |-> <<"stream", key>>,
          calls |-> <<Call("get_blob", key, "none")>>]

\* a reader's remote_open asks get_blob and has its answer; the call has
\* not returned, the caller and the workers run on
RemoteOpenLookup ==
    /\ phase = "ready"
    /\ opening.op = "none"
    /\ \E key \in ReadKeys, o \in Outcomes :
         LET r == remote_open(gcs_bucket, gcs_objects, key, o)
         IN  opening' = Pending("remote_open", key, r.raised, r.value, r.calls)
    /\ UNCHANGED <<calling, deleting, listing, observed, url, phase, locator, session, provider,
                   multipart, reinit_pc, paths, ret>>

\* that remote_open returns what the lookup decided
RemoteOpenReturn ==
    /\ opening.op = "remote_open"
    /\ ret' = Ret("remote_open", opening.arg, opening.raised, opening.value, {},
                  opening.calls, <<>>)
    /\ opening' = NoCall
    /\ UNCHANGED <<calling, deleting, listing, observed, url, phase, locator, session, provider,
                   multipart, reinit_pc, paths>>

----------------------------------------------------------------------------
(* Inputs of __init__ *)

UrlChars == {"b", "/", "?", "#", "\t", "[", "]", ":"}

\* the texts of at most n characters
Texts(n) == UNION {[1..m -> UrlChars] : m \in 0..n}

\* the two accepted schemes, and near misses of each
Schemes == {GS_SCHEME, BASE_URL, <<"g","s",":","/">>,
            SubSeq(BASE_URL, 1, Len(BASE_URL) - 1), <<>>}

\* a key prefix that holds the console URL itself
NestedUrl == GS_SCHEME \o <<"b", "/">> \o BASE_URL \o <<"b">>

\* a key prefix with a separator on both ends
SlashedUrl == BASE_URL \o <<"b", ":", "/", "/", "b", "/">>

\* texts put between brackets where the container is expected: IPv6 and
\* IPvFuture literals, and near misses of them
BracketedHosts ==
    {<<":", ":", "1">>, <<":", ":">>, <<"1", ":", ":">>, <<":">>, <<":", "1">>,
     <<"b", ":", "b">>, <<"b", ":", ":", "g">>, <<"1", ":", ":", "2", ":", ":", "3">>,
     <<"1", ":", "2", ":", "3", ":", "4", ":", "5", ":", "6", ":", "7", ":", "8">>,
     <<"1", ":", "2", ":", "3", ":", "4", ":", "5", ":", "6", ":", "7", ":", ":", "8">>,
     <<"1", ":", "2", ":", "3", ":", "4", ":", "5", ":", "6", ":", "7">>,
     <<"1", "2", "3", "4", "5", ":", ":">>,
     <<"1", ".", "2", ".", "3", ".", "4">>,
     <<":", ":", "1", ".", "2", ".", "3", ".", "4">>,
     <<":", ":", "2", "5", "6", ".", "2", ".", "3", ".", "4">>,
     <<":", ":", "0", "1", ".", "2", ".", "3", ".", "4">>,
     <<":", ":", "1", "%", "b">>, <<":", ":", "1", "%">>,
     <<"v">>, <<"v", "z">>, <<"v", "1", ".">>, <<"v", "1", ".", "b">>,
     <<"v", ".", "b">>, <<"V", "1", ".", "b">>}

\* URLs of both grammars whose container is a bracketed host
BracketedUrls ==
    {g \o <<"[">> \o h \o <<"]", "/", "b">> : g \in {GS_SCHEME, BASE_URL}, h \in BracketedHosts}

\* a container that ends with the start of the console URL, before a key
\* prefix that holds the rest of it: "https:" + "/" + "/console.../browser/b"
StraddlingUrls == {g \o BASE_URL \o <<"b">> : g \in {GS_SCHEME, BASE_URL}}

\* containers with characters outside ASCII: e acute, and three whose NFKC
\* form is "a/c", "#" and ":"
UnicodeContainers ==
    {<<"b", "U+00E9">>, <<"U+2100">>, <<"b", "U+FF03">>, <<"U+FF1A", "b">>}

UnicodeUrls ==
    {g \o c \o <<"/", "b">> : g \in {GS_SCHEME, BASE_URL}, c \in UnicodeContainers}
        \cup {GS_SCHEME \o <<"b", "/", "U+2100">>}

\* the URLs whose text after the scheme has at most n characters, and the
\* URLs above
Urls(n) ==
    {g \o t : g \in Schemes, t \in Texts(n)}
        \cup {NestedUrl, SlashedUrl} \cup BracketedUrls \cup StraddlingUrls \cup UnicodeUrls

InitLocator ==
    /\ url \in Urls(MaxUrlLen)
    /\ phase = "new"
    /\ bucket_name = <<>>
    /\ path = <<>>
    /\ client = 0
    /\ container_client = NoHandle
    /\ bucket_exists = "None"
    /\ gcs_bucket = TRUE
    /\ gcs_objects = EmptyBucket
    /\ upload_state = "idle"
    /\ upload_key = <<>>
    /\ inflight = {}
    /\ parts_metadata = {}
    /\ reinit_pc = "idle"
    /\ paths = <<>>
    /\ observed = <<0, NoHandle>>
    /\ deleting = NoDelete
    /\ listing = NoListing
    /\ calling = NoCall
    /\ opening = NoCall
    /\ ops = 0
    /\ ret = NoRet

NextLocator == Construct /\ UNCHANGED ops

SpecLocator == InitLocator /\ [][NextLocator]_vars

----------------------------------------------------------------------------
(* The adapter after construction *)

MainUrl == GS_SCHEME \o <<"b", "/", "b">>

\* the state __init__(MainUrl) leaves, over a bucket that exists or not
Constructed ==
    LET r == __init__(MainUrl)
    IN  /\ url = MainUrl
        /\ phase = "ready"
        /\ bucket_name = r.bucket_name
        /\ path = r.path
        /\ client = r.client
        /\ container_client = r.container_client
        /\ bucket_exists = r.bucket_exists
        /\ gcs_bucket \in BOOLEAN
        /\ upload_state = "idle"
        /\ upload_key = <<>>
        /\ inflight = {}
        /\ parts_metadata = {}
        /\ reinit_pc = "idle"
        /\ observed = <<0, NoHandle>>
        /\ deleting = NoDelete
        /\ listing = NoListing
        /\ calling = NoCall
        /\ opening = NoCall
        /\ ops = 0
        /\ ret = Ret("__init__", MainUrl, "none", "None", {}, NoCalls, <<>>)

InitSession == Constructed /\ gcs_objects = EmptyBucket /\ paths = <<>>

NextSession ==
    \/ ReinitClient /\ UNCHANGED ops
    \/ ReinitContainer /\ UNCHANGED ops
    \/ TestConnectivity /\ UNCHANGED ops
    \/ CreateBucketRequest /\ UNCHANGED ops
    \/ CreateBucketReturn /\ UNCHANGED ops

SpecSession == InitSession /\ [][NextSession]_vars

----------------------------------------------------------------------------
(* The transfers after construction *)

InitTransfer == Constructed /\ gcs_objects = EmptyBucket /\ paths = <<>>

NextTransfer ==
    \/ UploadFileobjWrite /\ UNCHANGED ops
    \/ UploadFileobjReturn /\ UNCHANGED ops
    \/ CreateMultipartUpload /\ UNCHANGED ops
    \/ DispatchPart /\ UNCHANGED ops
    \/ WritePart /\ UNCHANGED ops
    \/ ReturnPart /\ UNCHANGED ops
    \/ CompleteMultipartUpload /\ UNCHANGED ops
    \/ AbortMultipartUpload /\ UNCHANGED ops
    \/ DeleteNext /\ UNCHANGED ops
    \/ DeleteReturn /\ UNCHANGED ops

SpecTransfer == InitTransfer /\ [][NextTransfer]_vars

----------------------------------------------------------------------------
(* One multipart upload, its parts running beside the caller *)

InitParts == Constructed /\ gcs_objects = EmptyBucket /\ paths = <<>>

NextParts ==
    \/ CreateMultipartUpload /\ UNCHANGED ops
    \/ DispatchPart /\ UNCHANGED ops
    \/ WritePart /\ UNCHANGED ops
    \/ ReturnPart /\ UNCHANGED ops
    \/ CompleteMultipartUpload /\ UNCHANGED ops
    \/ AbortMultipartUpload /\ UNCHANGED ops
    \/ DeleteNext /\ UNCHANGED ops
    \/ DeleteReturn /\ UNCHANGED ops

SpecParts == InitParts /\ [][NextParts]_vars

----------------------------------------------------------------------------
(* Inputs of delete_objects *)

PathLists == UNION {[1..n -> Keys] : n \in 0..MaxPaths}

\* the bucket holds any of the keys when the call starts, or does not exist
InitialBuckets == UNION {[S -> {FileBody}] : S \in SUBSET Keys}

InitDelete ==
    /\ Constructed
    /\ gcs_objects \in InitialBuckets
    /\ gcs_bucket \/ gcs_objects = EmptyBucket
    /\ paths \in PathLists

NextDelete ==
    \/ DeleteObjects /\ UNCHANGED ops
    \/ DeleteNext /\ UNCHANGED ops
    \/ DeleteReturn /\ UNCHANGED ops

SpecDelete == InitDelete /\ [][NextDelete]_vars

----------------------------------------------------------------------------
(* The reads beside a re-initialisation *)

\* the bucket holds any of the listed keys, or does not exist
ListedBuckets == UNION {[S -> {FileBody}] : S \in SUBSET ListKeys}

InitRead ==
    /\ Constructed
    /\ gcs_objects \in ListedBuckets
    /\ gcs_bucket \/ gcs_objects = EmptyBucket
    /\ paths = <<>>

NextRead ==
    \/ ReinitClient /\ UNCHANGED ops
    \/ ReinitContainer /\ UNCHANGED ops
    \/ ListBucket /\ UNCHANGED ops
    \/ ListBucketPage /\ UNCHANGED ops
    \/ ListBucketReturn /\ UNCHANGED ops

SpecRead == InitRead /\ [][NextRead]_vars

----------------------------------------------------------------------------
(* remote_open on any bucket *)

\* the bucket holds any of the keys remote_open is called with, or does not
\* exist
OpenedBuckets == UNION {[S -> {FileBody}] : S \in SUBSET ReadKeys}

InitOpen ==
    /\ Constructed
    /\ gcs_objects \in OpenedBuckets
    /\ gcs_bucket \/ gcs_objects = EmptyBucket
    /\ paths = <<>>

NextOpen ==
    \/ RemoteOpenLookup /\ UNCHANGED ops
    \/ RemoteOpenReturn /\ UNCHANGED ops

SpecOpen == InitOpen /\ [][NextOpen]_vars

----------------------------------------------------------------------------
(* Every operation of a constructed adapter, in runs of at most MaxOps     *)
(* steps of the caller and the reader, the workers running beside them.    *)
(* delete_objects is given the one path "a", which exists or not by what   *)
(* the uploads before it wrote.                                            *)

InitAll ==
    /\ Constructed
    /\ gcs_objects = EmptyBucket
    /\ paths = << <<"a">> >>

NextAll ==
    \/ ops < MaxOps /\ ReinitClient /\ ops' = ops + 1
    \/ ops < MaxOps /\ ReinitContainer /\ ops' = ops + 1
    \/ ops < MaxOps /\ TestConnectivity /\ ops' = ops + 1
    \/ ops < MaxOps /\ CreateBucketRequest /\ ops' = ops + 1
    \/ CreateBucketReturn /\ UNCHANGED ops
    \/ ops < MaxOps /\ ListBucket /\ ops' = ops + 1
    \/ ops < MaxOps /\ ListBucketPage /\ ops' = ops + 1
    \/ ops < MaxOps /\ ListBucketReturn /\ ops' = ops + 1
    \/ ops < MaxOps /\ RemoteOpenLookup /\ ops' = ops + 1
    \/ RemoteOpenReturn /\ UNCHANGED ops
    \/ ops < MaxOps /\ UploadFileobjWrite /\ ops' = ops + 1
    \/ UploadFileobjReturn /\ UNCHANGED ops
    \/ ops < MaxOps /\ CreateMultipartUpload /\ ops' = ops + 1
    \/ ops < MaxOps /\ DispatchPart /\ ops' = ops + 1
    \/ WritePart /\ UNCHANGED ops
    \/ ReturnPart /\ UNCHANGED ops
    \/ ops < MaxOps /\ CompleteMultipartUpload /\ ops' = ops + 1
    \/ ops < MaxOps /\ AbortMultipartUpload /\ ops' = ops + 1
    \/ ops < MaxOps /\ DeleteObjects /\ ops' = ops + 1
    \/ ops < MaxOps /\ DeleteNext /\ ops' = ops + 1
    \/ ops < MaxOps /\ DeleteReturn /\ ops' = ops + 1

SpecAll == InitAll /\ [][NextAll]_vars

----------------------------------------------------------------------------
(* Locators, as the claims describe them *)

\* the characters a container name is kept free of: the delimiters of
\* urlparse, the brackets of an IP literal, the characters urlparse removes,
\* and the characters its NFKC check refuses
NotInContainer ==
    {"/", "?", "#", "[", "]"} \cup UNSAFE_URL_BYTES_TO_REMOVE \cup NFKC_UNSAFE

\* s holds t somewhere
Contains(s, t) ==
    \E i \in 0..(Len(s) - Len(t)) : SubSeq(s, i + 1, i + Len(t)) = t

HasScheme(u) == StartsWith(u, GS_SCHEME) \/ StartsWith(u, BASE_URL)

\* what follows the scheme of a URL that has one
AfterScheme(u) ==
    IF StartsWith(u, GS_SCHEME) THEN Drop(u, Len(GS_SCHEME)) ELSE Drop(u, Len(BASE_URL))

\* the same locator written in the other grammar
OtherGrammar(u) ==
    IF StartsWith(u, GS_SCHEME) THEN BASE_URL \o AfterScheme(u)
    ELSE GS_SCHEME \o AfterScheme(u)

\* neither scheme, or nothing where the container is expected
MalformedLocator(u) ==
    \/ ~HasScheme(u)
    \/ AfterScheme(u) = <<>>
    \/ Head(AfterScheme(u)) \in {"/", "?", "#"}

ContainerOf(u) == TakeUntil(AfterScheme(u), {"/"})

PrefixOf(u) == Drop(AfterScheme(u), Len(ContainerOf(u)) + 1)

\* scheme + c + "/" + p for a non-empty container name c
WellFormedLocator(u) ==
    /\ HasScheme(u)
    /\ ContainerOf(u) # <<>>
    /\ \A i \in 1..Len(ContainerOf(u)) : ContainerOf(u)[i] \notin NotInContainer
    /\ Len(AfterScheme(u)) > Len(ContainerOf(u))

\* an occurrence of the console base URL starts in the container of u
BaseUrlStartsInContainer(u) ==
    \E i \in 1..Len(ContainerOf(u)) :
        StartsWith(Drop(AfterScheme(u), i - 1), BASE_URL)

\* a key prefix without URL syntax of its own
PlainPrefix(p) ==
    /\ \A i \in 1..Len(p) : p[i] \notin {"?", "#", "\t", "\r", "\n"}
    /\ ~Contains(p, BASE_URL)

NoEdgeSeparator(s) == s = <<>> \/ (Head(s) # "/" /\ s[Len(s)] # "/")

\* C9: a URL that has neither scheme, or an empty container, makes __init__
\* fail with the ValueError of _parse_url, with no client created, no
\* container handle derived and no provider call issued.
C9_MalformedRejectedBeforeSession ==
    (phase # "new" /\ MalformedLocator(url)) =>
        /\ phase = "failed"
        /\ ret.op = "__init__"
        /\ ret.raised = "ValueError"
        /\ client = 0
        /\ container_client = NoHandle
        /\ ret.calls = NoCalls

C9_Witness ==
    /\ phase = "failed"
    /\ StartsWith(url, BASE_URL)
    /\ MalformedLocator(url)
    /\ Len(url) > Len(BASE_URL)

\* C10 as amended: for a container c free of "/", "?", "#", "[", "]", TAB,
\* CR, LF and of the characters the NFKC check refuses, scheme + c + "/" + p
\* resolves in both grammars to the same pair; its container is not empty
\* and its prefix has no leading or trailing "/"; unless an occurrence of
\* the console base URL starts in c, the container is c, and the prefix is p
\* stripped of its leading and trailing "/" whenever moreover p holds no
\* "?", no "#", no TAB, CR or LF and no console base URL.
C10_GrammarsAgree ==
    (phase # "new" /\ WellFormedLocator(url)) =>
        LET other == _parse_url(OtherGrammar(url))
        IN  /\ phase = "ready"
            /\ bucket_name # <<>>
            /\ NoEdgeSeparator(path)
            /\ other.raised = "none"
            /\ other.bucket_name = bucket_name
            /\ other.path = path
            /\ ~BaseUrlStartsInContainer(url) =>
                   /\ bucket_name = ContainerOf(url)
                   /\ PlainPrefix(PrefixOf(url)) => path = Strip(PrefixOf(url))

\* the console form of a container that holds ":", with a key prefix that
\* has "/" on both ends
C10_Witness ==
    /\ phase = "ready"
    /\ StartsWith(url, BASE_URL)
    /\ WellFormedLocator(url)
    /\ ~BaseUrlStartsInContainer(url)
    /\ PlainPrefix(PrefixOf(url))
    /\ path # <<>>
    /\ Head(PrefixOf(url)) = "/"
    /\ PrefixOf(url)[Len(PrefixOf(url))] = "/"
    /\ HasChar(bucket_name, ":")

\* C10 as stated: the container is c and the prefix is p stripped of its
\* leading and trailing "/" for every container c and every key prefix p.
C10_AsStated ==
    (phase # "new" /\ HasScheme(url) /\ ContainerOf(url) # <<>>
        /\ Len(AfterScheme(url)) > Len(ContainerOf(url))) =>
        LET other == _parse_url(OtherGrammar(url))
        IN  /\ phase = "ready"
            /\ bucket_name = ContainerOf(url)
            /\ bucket_name # <<>>
            /\ NoEdgeSeparator(path)
            /\ other.raised = "none"
            /\ other.bucket_name = bucket_name
            /\ other.path = path
            /\ path = Strip(PrefixOf(url))

----------------------------------------------------------------------------
(* Multipart upload, as the claims describe it *)

\* body_1 ++ ... ++ body_n
RECURSIVE ConcatParts(_)
ConcatParts(n) == IF n = 0 THEN <<>> ELSE ConcatParts(n - 1) \o PartBody(n)

\* C1: once every part 1..N has been uploaded and the completion call has
\* returned, the object at the key is body_1 ++ ... ++ body_N.
C1_RoundTrip ==
    (/\ ret.op = "_complete_multipart_upload"
     /\ ret.raised = "none"
     /\ parts_metadata = 1..NumParts
     /\ ret.arg = SortedParts(1..NumParts)) =>
        /\ upload_key \in DOMAIN gcs_objects
        /\ gcs_objects[upload_key] = ConcatParts(NumParts)

\* C2: after a multipart upload with at least one uploaded part is aborted,
\* with no part upload in flight and the abort call returning normally, no
\* object exists at its key.
C2_AbortLeavesNoObject ==
    (/\ ret.op = "_abort_multipart_upload"
     /\ ret.raised = "none"
     /\ parts_metadata # {}
     /\ inflight = {}) =>
        upload_key \notin DOMAIN gcs_objects

----------------------------------------------------------------------------
(* Bulk delete, as the claims describe it *)

Attempted(calls) == {calls[i].key : i \in 1..Len(calls)}

\* the keys whose provider delete failed, each with its cause
Failed(calls) ==
    {<<calls[i].key, calls[i].raised>> : i \in {j \in 1..Len(calls) : calls[j].raised # "none"}}

Succeeded(calls) ==
    {calls[i].key : i \in {j \in 1..Len(calls) : calls[j].raised = "none"}}

\* C3: one call of delete_objects attempts the provider delete of every
\* distinct key it was given, whatever error an earlier key raised.
C3_EveryKeyAttempted ==
    ret.op = "delete_objects" => Attempted(ret.calls) = PySet(paths)

\* C4: when keys fail with a provider API error (and every key was
\* attempted), delete_objects ends with an error whose payload names exactly
\* the keys that failed, each with its cause.
C4_ErrorNamesFailedKeys ==
    (/\ ret.op = "delete_objects"
     /\ Failed(ret.calls) # {}
     /\ \A e \in Failed(ret.calls) : IsGoogleAPIError(e[2])) =>
        /\ ret.raised # "none"
        /\ ret.payload = Failed(ret.calls)

\* C5: delete_objects returns normally exactly when the provider delete
\* succeeded for every distinct key it was given, and then none of these
\* keys is left in the bucket.
C5_NoFalseSuccess ==
    ret.op = "delete_objects" =>
        /\ ret.raised = "none" <=> PySet(paths) \subseteq Succeeded(ret.calls)
        /\ ret.raised = "none" => PySet(paths) \cap DOMAIN gcs_objects = {}

C5_Witness ==
    /\ ret.op = "delete_objects"
    /\ ret.raised = "none"
    /\ Cardinality(PySet(paths)) = 2
    /\ Len(paths) = 3

----------------------------------------------------------------------------
(* Connectivity probing, as the claims describe it *)

\* how the existence probe of the last test_connectivity ended
ProbeRaised == ret.calls[1].raised

\* C6: test_connectivity returns a boolean whatever the probe does; no
\* exception reaches the caller.
C6_NeverRaises ==
    ret.op = "test_connectivity" =>
        /\ ret.raised = "none"
        /\ ret.value \in {"True", "False"}

\* C7: (as stated) test_connectivity returns True exactly when the probe
\* ended without an error, whether it answered "exists" or "does not exist",
\* and returns False exactly when the probe failed with an error.
C7_TrueIffProbeCompleted ==
    ret.op = "test_connectivity" =>
        /\ (ret.raised = "none" /\ ret.value = "True") <=> ProbeRaised = "none"
        /\ (ret.raised = "none" /\ ret.value = "False") <=> ProbeRaised # "none"

----------------------------------------------------------------------------
(* Single-shot upload, as the claims describe it *)

\* C8: when the provider write of upload_fileobj raises E, the call logs
\* the type and the details of E and fails with E.
C8_ProviderErrorReachesCaller ==
    (ret.op = "upload_fileobj" /\ ret.calls[1].raised # "none") =>
        /\ ret.raised = ret.calls[1].raised
        /\ <<"type", ret.calls[1].raised>> \in PySet(ret.log)

----------------------------------------------------------------------------
(* The reads *)

\* the keys of the bucket under the prefix p
UnderPrefix(p) == {k \in DOMAIN gcs_objects : StartsWith(k, p)}

\* those with no delimiter d after the prefix
DirectKeys(p, d) == {k \in UnderPrefix(p) : ~Contains(Drop(k, Len(p)), d)}

\* the virtual directory of the key k under p: k up to the first d after p
DirOf(k, p, d) ==
    LET i == CHOOSE j \in (Len(p) + Len(d))..Len(k) :
                 /\ SubSeq(k, j - Len(d) + 1, j) = d
                 /\ ~Contains(SubSeq(k, Len(p) + 1, j - 1), d)
    IN  SubSeq(k, 1, i)

ImpliedDirs(p, d) == {DirOf(k, p, d) : k \in UnderPrefix(p) \ DirectKeys(p, d)}

\* C11: a list_bucket(prefix, delimiter) that returns has returned every key
\* under the prefix with no delimiter in its remainder, each once, followed
\* by every virtual directory implied by the other keys under the prefix,
\* each once, however many keys share it and however many pages the provider
\* split the enumeration into.
C11_ListingComplete ==
    (ret.op = "list_bucket" /\ ret.raised = "none") =>
        LET keys == DirectKeys(ret.arg.prefix, ret.arg.delimiter)
            dirs == ImpliedDirs(ret.arg.prefix, ret.arg.delimiter)
            n == Cardinality(keys)
        IN  /\ Len(ret.value) = n + Cardinality(dirs)
            /\ {ret.value[i] : i \in 1..n} = keys
            /\ {ret.value[i] : i \in (n + 1)..Len(ret.value)} = dirs

\* a listing of three pages that returned the key "a" and the directory "d/",
\* which two keys of the later pages share
C11_Witness ==
    /\ ret.op = "list_bucket" /\ ret.raised = "none"
    /\ ret.arg = [prefix |-> <<>>, delimiter |-> DEFAULT_DELIMITER]
    /\ Len(ret.calls) >= 3
    /\ {<<"d", "/", "a">>, <<"d", "/", "b">>} \subseteq DOMAIN gcs_objects
    /\ ret.value = << <<"a">>, <<"d", "/">> >>

\* C12: whenever the provider answers, remote_open(key) returns: None for a
\* key that does not exist, a stream over the object for one that does, and
\* in both cases after exactly one provider call, the lookup of that key.
C12_OneLookupDecides ==
    (ret.op = "remote_open" /\ ret.calls[1].raised = "none") =>
        /\ ret.raised = "none"
        /\ ret.calls = <<Call("get_blob", ret.arg, "none")>>
        /\ ret.arg \notin DOMAIN gcs_objects => ret.value = "None"
        /\ ret.arg \in DOMAIN gcs_objects => ret.value = <<"stream", ret.arg>>

\* a remote_open that found its key and returned the stream after one lookup
C12_Witness ==
    /\ ret.op = "remote_open" /\ ret.raised = "none"
    /\ ret.arg \in DOMAIN gcs_objects
    /\ ret.value = <<"stream", ret.arg>>
    /\ Len(ret.calls) = 1

\* the session a reader saw is whole: the container handle it read was
\* derived from the client it read
ObservedWhole == observed[2] = BucketHandle(observed[1], bucket_name)

\* C14: (as stated) a reader never sees a client of the new session with
\* the container handle of the previous one.
C14_ReaderSeesWholeSession ==
    listing.active => ObservedWhole

----------------------------------------------------------------------------
(* Completion and the part limits *)

\* C13: (as stated) a completion called with a parts list that is not the
\* increasing sequence of all uploaded parts fails with an error.
C13_BadPartSetRefused ==
    (ret.op = "_complete_multipart_upload" /\ ret.arg # SortedParts(parts_metadata)) =>
        ret.raised # "none"

\* C15: (as stated) an _upload_part whose part_number exceeds
\* MAX_CHUNKS_PER_FILE is rejected before any provider call is issued.
C15_PartOverLimitRejected ==
    (ret.op = "_upload_part" /\ ret.arg > MAX_CHUNKS_PER_FILE) =>
        (ret.raised # "none" /\ ret.calls = NoCalls)

\* the whole bodies of the parts
PartBodies == {PartBody(i) : i \in 1..NumParts}

\* the object at the key k: the set of its one body, empty when there is none
ObjectAt(objs, k) == IF k \in DOMAIN objs THEN {objs[k]} ELSE {}

\* this step is the successful provider write of part i
PartWritten(i) ==
    /\ [part |-> i, write |-> "pending"] \in inflight
    /\ [part |-> i, write |-> "none"] \in inflight'

\* C16: under any interleaving of the _upload_part calls of one key, each
\* call issues exactly one provider write, to that key, which makes the
\* object exactly the body of its part; while the upload is in progress the
\* object at the key changes only by such a write or by a delete, so it is
\* absent or the whole body of the last part written; no object ever holds
\* anything but the whole body of one part.
C16_NoInterleavedBytes ==
    /\ [](/\ \A k \in DOMAIN gcs_objects : gcs_objects[k] \in PartBodies
          /\ ret.op = "_upload_part" =>
                 /\ Len(ret.calls) = 1
                 /\ ret.calls[1].call = "upload" /\ ret.calls[1].key = upload_key)
    /\ [][/\ \A i \in 1..NumParts :
                PartWritten(i) => ObjectAt(gcs_objects', upload_key) = {PartBody(i)}
          /\ (/\ upload_state = "created"
              /\ ObjectAt(gcs_objects', upload_key) # ObjectAt(gcs_objects, upload_key)
              /\ ObjectAt(gcs_objects', upload_key) # {}) =>
                 \E i \in 1..NumParts : PartWritten(i)]_vars

\* part 2 has returned its record while the object holds the body of part
\* 1, whose call wrote after part 2 and has not returned yet
C16_Witness ==
    /\ ret.op = "_upload_part" /\ ret.raised = "none"
    /\ ret.arg = 2
    /\ [part |-> 1, write |-> "none"] \in inflight
    /\ upload_key \in DOMAIN gcs_objects
    /\ gcs_objects[upload_key] = PartBody(1)

\* C17: (as stated) one delete_objects(paths) issues the provider delete at
\* most once per distinct key, and for exactly the distinct keys of paths.
C17_OncePerDistinctKey ==
    ret.op = "delete_objects" =>
        /\ \A i, j \in 1..Len(ret.calls) : i # j => ret.calls[i].key # ret.calls[j].key
        /\ {ret.calls[i].key : i \in 1..Len(ret.calls)} = {paths[i] : i \in 1..Len(paths)}

----------------------------------------------------------------------------
(* What the operations leave alone *)

\* C18: no operation of a constructed adapter changes bucket_name or path,
\* and a step of _reinit_session changes no bucket and no object.
C18_LocatorAndProviderFramed ==
    [][/\ bucket_name' = bucket_name /\ path' = path
       /\ (ReinitClient \/ ReinitContainer) => provider' = provider]_vars

\* a session was opened after the constructor's and an object was written;
\* the locator is the one __init__ parsed
C18_Witness ==
    /\ client = 2 /\ reinit_pc = "idle"
    /\ gcs_objects # EmptyBucket
    /\ ops >= 3
    /\ bucket_name = <<"b">> /\ path = <<"b">>

\* C19: bucket_exists is None after construction; a test_connectivity that
\* returns True sets it to the answer of the probe; every other step (a
\* test_connectivity that returns False or raises, _reinit_session and
\* every other operation) leaves it as it was.
C19_CacheDiscipline ==
    /\ bucket_exists = "None"
    /\ [][IF TestConnectivity /\ ret'.value = "True"
          THEN bucket_exists' = (IF gcs_bucket THEN "True" ELSE "False")
          ELSE bucket_exists' = bucket_exists]_vars

\* a _reinit_session has just ended and the flag cached before it is there
C19_Witness ==
    /\ ret.op = "_reinit_session"
    /\ client > 1
    /\ bucket_exists \in {"True", "False"}

\* what C20 says of create, of complete and of what _upload_part returns
NoHandleReturns ==
    /\ ret.op = "create_multipart_upload" =>
         (ret.raised = "none" /\ ret.value = <<>> /\ ret.calls = NoCalls)
    /\ ret.op = "_complete_multipart_upload" => ret.calls = NoCalls
    /\ (ret.op = "_upload_part" /\ ret.calls[1].raised = "none") =>
         /\ ret.raised = "none"
         /\ ret.value = [PartNumber |-> ret.arg]
    /\ (ret.op = "_upload_part" /\ ret.calls[1].raised # "none") =>
         ret.raised # "none"

\* C20 as amended: create_multipart_upload and _complete_multipart_upload
\* issue no provider call and change neither the bucket nor the session, and
\* create returns an empty handle; _upload_part returns the record of its
\* part number only after its write succeeded, and no record when the write
\* failed; the object is at the key from the successful write of an
\* _upload_part on, whether or not a completion follows, until a delete (of
\* an abort that runs beside the part calls) removes it, which can be
\* before that _upload_part returns.
C20_NoHandleProtocol ==
    /\ []NoHandleReturns
    /\ [][/\ (CreateMultipartUpload \/ CompleteMultipartUpload) =>
                (provider' = provider /\ session' = session)
          /\ (ReturnPart /\ ret'.raised = "none") =>
                [part |-> ret'.arg, write |-> "none"] \in inflight
          /\ (ReturnPart /\ ret'.raised # "none") =>
                [part |-> ret'.arg, write |-> ret'.calls[1].raised] \in inflight
          /\ \A i \in 1..NumParts :
                PartWritten(i) => upload_key \in DOMAIN gcs_objects'
          /\ (upload_key \in DOMAIN gcs_objects /\ upload_key \notin DOMAIN gcs_objects') =>
                DeleteNext]_vars

\* the first part of an upload has been written and recorded, and the
\* object is at the key before any completion
C20_Witness ==
    /\ ret.op = "_upload_part" /\ ret.raised = "none"
    /\ upload_state = "created"
    /\ parts_metadata = {ret.arg}
    /\ upload_key \in DOMAIN gcs_objects

\* C20 as stated: the object is at the key whenever an _upload_part returns
\* its record.
C20_AsStated ==
    /\ []NoHandleReturns
    /\ [][/\ (CreateMultipartUpload \/ CompleteMultipartUpload) =>
                (provider' = provider /\ session' = session)
          /\ (ReturnPart /\ ret'.raised = "none") =>
                upload_key \in DOMAIN gcs_objects']_vars

====
